---- MODULE Spec2Model ----
(***************************************************************************)
(* A model of the image question-answering pipeline of llmimage:           *)
(* app.js (AppController, GeminiAPI, ImageProcessor, UIController) and the *)
(* older single-function script (src/unnamed/part_000).                    *)
(*                                                                         *)
(* Text is modelled as sequences of one-character strings, a data URL by   *)
(* the lengths of its two parts, and every answer of the network as a      *)
(* choice of the environment at the moment the awaited request settles.    *)
(***************************************************************************)
EXTENDS Integers, Sequences, FiniteSets, TLC

VARIABLES
    script,             \* "app" (app.js) or "old" (the older script)
    pc,                 \* where the run stands (one value per await point)
    imageDetails,       \* the ImageDetail sequence handed to admission
    i,                  \* number of images the for-of loop has taken
    probe,              \* answer of the HEAD request for the current image
    processedImages,    \* the ProcessedImage sequence
    totalPayloadSize,   \* the running accumulator
    probed,             \* URLs a size probe (HEAD) was sent to
    fetched,            \* URLs downloaded or rasterized
    previews,           \* ids of the preview notifications, in order
    last,               \* what the pass logged about the image it took last
    overBudget,         \* the images the budget step refused
    checkbox,           \* useProxyToggle.checked
    usingProxy,         \* GeminiAPI's flag
    apiKey,             \* the credential the run was started with
    runUseProxy,        \* the checkbox as the submit handler read it
    alert,              \* the alert the last click raised
    button,             \* state of the submit button
    loading,            \* whether the loading indicator is shown
    response,           \* what the response area shows
    calls,              \* requests sent in the current run, per endpoint
    proxyLog,           \* what was logged last about the relay in this run
    searchTerms,        \* the terms parsed from the model's reply
    searchSettled,      \* positions of the search requests that settled
    searchResults,      \* the candidate list of every settled search
    allImageResults,    \* the flattened, capped candidate list
    detailSettled,      \* positions of the detail requests that settled
    detailResults,      \* the detail (or null) of every settled lookup
    geminiResponse,     \* the text of the model's reply being worked on
    imagePlaceholders,  \* the placeholder -> filename entries, in insertion order
    formattedResponse,  \* the text handed to the markup renderer
    resolved,           \* per placeholder entry handled: the image found, 0 if none
    description,        \* the text the metadata gave for an image's alt text
    altText,            \* the alt text of the ImageDetail
    failed              \* the search and detail requests that failed in this run

admVars == <<imageDetails, i, probe, processedImages, totalPayloadSize,
             probed, fetched, previews, last, overBudget>>

uiVars == <<checkbox, usingProxy, apiKey, runUseProxy, alert, button, loading,
            response>>

stageVars == <<calls, proxyLog, searchTerms, searchSettled, searchResults,
               allImageResults, detailSettled, detailResults>>

runVars == <<uiVars, stageVars>>

textVars == <<geminiResponse, imagePlaceholders, formattedResponse, resolved,
              description, altText>>

vars == <<script, pc, admVars, runVars, textVars, failed>>

(***************************************************************************)
(* Bounds of the model.                                                    *)
(***************************************************************************)
MaxInput == 3
MaxSkips == 2
MaxHits == 2

\* allImageResults.slice(0, 15)
MaxCandidates == 15

(***************************************************************************)
(* Text                                                                    *)
(***************************************************************************)
UpperLetters ==
    <<"A", "B", "C", "D", "E", "F", "G", "H", "I", "J", "K", "L", "M",
      "N", "O", "P", "Q", "R", "S", "T", "U", "V", "W", "X", "Y", "Z">>

LowerLetters ==
    <<"a", "b", "c", "d", "e", "f", "g", "h", "i", "j", "k", "l", "m",
      "n", "o", "p", "q", "r", "s", "t", "u", "v", "w", "x", "y", "z">>

Lower(c) ==
    IF \E k \in 1..26 : UpperLetters[k] = c
    THEN LowerLetters[CHOOSE k \in 1..26 : UpperLetters[k] = c]
    ELSE c

toLowerCase(s) == [k \in 1..Len(s) |-> Lower(s[k])]

endsWith(s, suffix) ==
    /\ Len(s) >= Len(suffix)
    /\ SubSeq(s, Len(s) - Len(suffix) + 1, Len(s)) = suffix

DotGif == <<".", "g", "i", "f">>
DotSvg == <<".", "s", "v", "g">>

UrlGif    == <<"a", ".", "g", "i", "f">>
UrlGifUp  == <<"a", ".", "G", "i", "F">>
UrlSvg    == <<"a", ".", "s", "v", "g">>
UrlJpg    == <<"a", ".", "j", "p", "g">>

(***************************************************************************)
(* Configuration of the two scripts                                        *)
(***************************************************************************)
MB == 1024 * 1024

MAX_PAYLOAD_SIZE(s) == IF s = "app" THEN 17 * 1024 * 1024 ELSE 15 * 1024 * 1024

\* sizeInMB <= 1.0 (app.js), sizeInMB <= 0.5 (older script), on whole bytes
WithinCeiling(s, bytes) ==
    IF s = "app" THEN bytes <= MB ELSE 2 * bytes <= MB

CeilingBytes(s) == IF s = "app" THEN MB ELSE MB \div 2

MaxImageCount_eight(s) == 8

MaxImageCount(s) == IF s = "app" THEN 15 ELSE 8

(***************************************************************************)
(* ImageProcessor                                                          *)
(***************************************************************************)
\* A probe answer: ok = the HEAD request succeeded with a success status,
\* len = the Content-Length it reported, -1 when the header is absent.
checkImageSize_noCeiling(s, p) == p.ok

checkImageSize_failOpen(s, p) ==
    IF ~p.ok THEN TRUE
    ELSE IF p.len < 0 THEN TRUE
    ELSE WithinCeiling(s, p.len)

checkImageSize(s, p) ==
    IF ~p.ok THEN FALSE
    ELSE IF p.len < 0 THEN TRUE
    ELSE WithinCeiling(s, p.len)

estimateBase64Size_noFallback(b) == (b.data * 3 + 3) \div 4

\* A data URL: head = length up to and including the comma, data = length
\* of what follows it.  split(',')[1] || base64String falls back to the
\* whole string when nothing follows the comma.
estimateBase64Size(b) ==
    LET base64Data == IF b.data > 0 THEN b.data ELSE b.head + b.data
    IN  (base64Data * 3 + 3) \div 4

(***************************************************************************)
(* What the network can answer                                             *)
(***************************************************************************)
NoLength == -1

\* HEAD answers: a failure, a success without Content-Length, a success
\* reporting exactly the ceiling, and one byte more.
Probes(s) ==
    {[ok |-> FALSE, len |-> NoLength], [ok |-> TRUE, len |-> NoLength],
     [ok |-> TRUE, len |-> CeilingBytes(s)],
     [ok |-> TRUE, len |-> CeilingBytes(s) + 1]}

ProbesPlain(s) == {[ok |-> TRUE, len |-> NoLength]}

\* Length of the base64 text of the largest payloads two of which fit.
HalfData(s) == 4 * ((MAX_PAYLOAD_SIZE(s) \div 2) \div 3)

DataUrl(n) == [ok |-> TRUE, head |-> 22, data |-> n]
FetchFailed == [ok |-> FALSE, head |-> 0, data |-> 0]

\* GET / rasterization answers: a failure, an empty payload, a payload two
\* of which fit in the budget, and a payload two of which do not.
Payloads(s) ==
    {FetchFailed, DataUrl(0), DataUrl(HalfData(s)), DataUrl(HalfData(s) + 4)}

PayloadsPlain(s) == {FetchFailed, DataUrl(0)}

(***************************************************************************)
(* AppController.processImages, and the same loop of the older script      *)
(***************************************************************************)
isGif_caseSensitive(url) == endsWith(url, DotGif)

isGif(url) == endsWith(toLowerCase(url), DotGif)

isSvg(url) == endsWith(url, DotSvg)

exceedsBudget_sizeOnly(s, total, imageSize) == imageSize > MAX_PAYLOAD_SIZE(s)

exceedsBudget_atLimit(s, total, imageSize) ==
    total + imageSize >= MAX_PAYLOAD_SIZE(s)

exceedsBudget(s, total, imageSize) == total + imageSize > MAX_PAYLOAD_SIZE(s)

push_front(seq, e) == <<e>> \o seq

push_dropped(seq, e) == seq

push(seq, e) == Append(seq, e)

spliceToMax_keepsAll(s, seq) == seq

\* if (processedImages.length > N) processedImages.splice(N)
spliceToMax(s, seq) ==
    IF Len(seq) > MaxImageCount(s) THEN SubSeq(seq, 1, MaxImageCount(s)) ELSE seq

NoProbe == [ok |-> FALSE, len |-> NoLength]
NoLog == [id |-> 0, kind |-> "none", size |-> 0, before |-> 0]
Logged(id, kind, size, before) ==
    [id |-> id, kind |-> kind, size |-> size, before |-> before]

\* const processedImages = []; let totalPayloadSize = 0;
AdmissionStart(details) ==
    /\ imageDetails = details
    /\ i = 0
    /\ probe = NoProbe
    /\ processedImages = <<>>
    /\ totalPayloadSize = 0
    /\ probed = {}
    /\ fetched = {}
    /\ previews = <<>>
    /\ last = NoLog
    /\ overBudget = {}

\* The loop takes the next image: a GIF is skipped on the spot, for any
\* other image the size probe is sent.
TakeImage ==
    /\ pc = "loop"
    /\ i < Len(imageDetails)
    /\ LET img == imageDetails[i + 1] IN
       /\ i' = i + 1
       /\ IF isGif(img.url)
          THEN /\ last' = Logged(img.id, "gif", 0, totalPayloadSize)
               /\ UNCHANGED <<pc, probed>>
          ELSE /\ probed' = probed \cup {img.url}
               /\ pc' = "probe"
               /\ UNCHANGED last
    /\ UNCHANGED <<script, textVars, failed, imageDetails, probe, processedImages,
                   totalPayloadSize, fetched, previews, overBudget, runVars>>

\* checkImageSize settles: an image it refuses is skipped, otherwise the
\* download (or, for an SVG, the rasterization) is started.
ProbeSettles(answers) ==
    /\ pc = "probe"
    /\ \E p \in answers :
         LET img == imageDetails[i] IN
         /\ probe' = p
         /\ IF ~checkImageSize(script, p)
            THEN /\ last' = Logged(img.id, "oversized", 0, totalPayloadSize)
                 /\ pc' = "loop"
                 /\ UNCHANGED fetched
            ELSE /\ fetched' = fetched \cup {img.url}
                 /\ pc' = "fetch"
                 /\ UNCHANGED last
    /\ UNCHANGED <<script, textVars, failed, imageDetails, i, processedImages, totalPayloadSize,
                   probed, previews, overBudget, runVars>>

\* Failures so far in the pass (images taken and not accepted).
Skipped == (i - 1) - Len(previews)

\* svgToPng / getImageBase64 settles: a failure is caught and the image
\* dropped; otherwise the budget step accepts or skips the image.
FetchSettles(answers, maxSkips) ==
    /\ pc = "fetch"
    /\ \E b \in answers :
         LET img == imageDetails[i]
             imageSize == estimateBase64Size(b)
         IN
         /\ (~b.ok => Skipped < maxSkips)
         /\ pc' = "loop"
         /\ IF ~b.ok
            THEN /\ last' = Logged(img.id, "error", 0, totalPayloadSize)
                 /\ UNCHANGED <<processedImages, totalPayloadSize, previews,
                                overBudget>>
            ELSE IF exceedsBudget(script, totalPayloadSize, imageSize)
            THEN /\ last' = Logged(img.id, "budget", imageSize, totalPayloadSize)
                 /\ overBudget' =
                        overBudget \cup
                        {[id |-> img.id, size |-> imageSize, probe |-> probe]}
                 /\ UNCHANGED <<processedImages, totalPayloadSize, previews>>
            ELSE /\ totalPayloadSize' = totalPayloadSize + imageSize
                 /\ processedImages' =
                        push(processedImages,
                             [id |-> img.id, url |-> img.url, base64 |-> b,
                              probe |-> probe])
                 /\ previews' = Append(previews, img.id)
                 /\ last' = Logged(img.id, "added", imageSize, totalPayloadSize)
                 /\ UNCHANGED overBudget
    /\ UNCHANGED <<script, textVars, failed, imageDetails, i, probe, probed, fetched, runVars>>

\* After the loop: the count cap, and the return.
ReturnImages ==
    /\ pc = "loop"
    /\ i = Len(imageDetails)
    /\ processedImages' = spliceToMax(script, processedImages)
    /\ pc' = "returned"
    /\ UNCHANGED <<script, textVars, failed, imageDetails, i, probe, totalPayloadSize, probed,
                   fetched, previews, last, overBudget, runVars>>

(***************************************************************************)
(* Text of the model's replies                                             *)
(***************************************************************************)
\* The white space String.prototype.trim removes (of the characters used).
WhiteSpace == {" ", "\n", "\t"}

RECURSIVE trimStart(_)
trimStart(s) ==
    IF s # <<>> /\ Head(s) \in WhiteSpace THEN trimStart(Tail(s)) ELSE s

RECURSIVE trimEnd(_)
trimEnd(s) ==
    IF s # <<>> /\ s[Len(s)] \in WhiteSpace
    THEN trimEnd(SubSeq(s, 1, Len(s) - 1))
    ELSE s

trim(s) == trimEnd(trimStart(s))

\* Index of the first occurrence of character c in s, 0 when there is none.
indexOf(s, c) ==
    IF \E k \in 1..Len(s) : s[k] = c
    THEN CHOOSE k \in 1..Len(s) : s[k] = c /\ \A j \in 1..(k - 1) : s[j] # c
    ELSE 0

RECURSIVE split(_, _)
split(s, c) ==
    IF indexOf(s, c) = 0 THEN <<s>>
    ELSE <<SubSeq(s, 1, indexOf(s, c) - 1)>>
         \o split(SubSeq(s, indexOf(s, c) + 1, Len(s)), c)

\* text.trim().split(',').map(term => term.trim())
parseSearchTerms(text) ==
    LET parts == split(trim(text), ",")
    IN  [k \in 1..Len(parts) |-> trim(parts[k])]

\* Replies of the model to the term prompt: "" and "a, b".
Replies == { <<>>, <<"a", ",", " ", "b">> }

\* No reply text is being worked on.
TextStart(text) ==
    /\ geminiResponse = text
    /\ imagePlaceholders = <<>>
    /\ formattedResponse = <<>>
    /\ resolved = <<>>
    /\ description = <<>>
    /\ altText = <<>>

\* getSearchTerms from the reply's text to its return value.
ParseTerms ==
    /\ pc = "terms_reply"
    /\ searchTerms' = parseSearchTerms(geminiResponse)
    /\ pc' = "terms_parsed"
    /\ UNCHANGED <<script, textVars, failed, admVars, uiVars, calls, proxyLog,
                   searchSettled, searchResults, allImageResults,
                   detailSettled, detailResults>>

(***************************************************************************)
(* WikimediaAPI.getImageDetails: the alt text                              *)
(***************************************************************************)
\* substring(0, 200)
AltLimit == 200

Ellipsis == <<".", ".", ".">>

\* String.prototype.substring(0, n)
substring(s, n) == IF Len(s) > n THEN SubSeq(s, 1, n) ELSE s

\* altText.trim().substring(0, 200), and the marker at length 200
limitAltText(text) ==
    LET cut == substring(trim(text), AltLimit)
    IN  IF Len(cut) = AltLimit THEN cut \o Ellipsis ELSE cut

\* getImageDetails from the text the metadata gave to the alt text.
CleanAltText ==
    /\ pc = "alt_source"
    /\ altText' = limitAltText(description)
    /\ pc' = "alt_done"
    /\ UNCHANGED <<script, geminiResponse, imagePlaceholders, formattedResponse,
                   resolved, description, failed, admVars, runVars>>

(***************************************************************************)
(* AppController.formatResponse                                            *)
(***************************************************************************)
Open == <<"[", "[", "[">>
Close == <<"]", "]", "]">>

\* s has the text sub at position p.
hasAt(s, p, sub) ==
    /\ p >= 1
    /\ p + Len(sub) - 1 <= Len(s)
    /\ SubSeq(s, p, p + Len(sub) - 1) = sub

includes_nonEmpty(s, sub) ==
    sub # <<>> /\ \E p \in 1..Len(s) : hasAt(s, p, sub)

\* String.prototype.includes
includes(s, sub) == \E p \in 1..(Len(s) + 1) : hasAt(s, p, sub)

\* The places e at which a match of /\[\[\[(.*?)\]\]\]/ that starts at p
\* can close: "]]]" stands at e and no line break lies in between.
closings(text, p) ==
    {e \in (p + 3)..Len(text) :
        /\ hasAt(text, e, Close)
        /\ \A k \in (p + 3)..(e - 1) : text[k] # "\n"}

matchesAt(text, p) == hasAt(text, p, Open) /\ closings(text, p) # {}

Min(S) == CHOOSE x \in S : \A y \in S : x <= y

\* pattern.exec in the while loop: the matches from lastIndex on, left to
\* right, each with the shortest enclosed text, none overlapping another.
RECURSIVE execAll(_, _)
execAll(text, lastIndex) ==
    LET starts == {p \in lastIndex..Len(text) : matchesAt(text, p)} IN
    IF starts = {} THEN <<>>
    ELSE LET p == Min(starts)
             e == Min(closings(text, p))
         IN  <<[placeholder |-> SubSeq(text, p, e + 2),
                filename |-> SubSeq(text, p + 3, e - 1)]>>
             \o execAll(text, e + 3)

assignAll_appends(entries, matches) == entries \o matches

\* imagePlaceholders[placeholder] = filename, for every match in turn: a
\* key keeps the place of its first insertion and the value written last.
RECURSIVE assignAll(_, _)
assignAll(entries, matches) ==
    IF matches = <<>> THEN entries
    ELSE LET m == Head(matches) IN
         IF \E k \in 1..Len(entries) : entries[k].placeholder = m.placeholder
         THEN assignAll([k \in 1..Len(entries) |->
                            IF entries[k].placeholder = m.placeholder
                            THEN m ELSE entries[k]],
                        Tail(matches))
         ELSE assignAll(Append(entries, m), Tail(matches))

WordChars ==
    {UpperLetters[k] : k \in 1..26} \cup {LowerLetters[k] : k \in 1..26}
        \cup {"0", "1", "2", "3", "4", "5", "6", "7", "8", "9", "_"}

\* s.replace(/\.\w+$/, '')
stripExtension(s) ==
    LET dots == {p \in 1..(Len(s) - 1) :
                    /\ s[p] = "."
                    /\ \A k \in (p + 1)..Len(s) : s[k] \in WordChars}
    IN  IF dots = {} THEN s ELSE SubSeq(s, 1, Min(dots) - 1)

titleMatches_exactOnly(title, normalizedFilename) ==
    toLowerCase(title) = normalizedFilename

\* The predicate of processedImages.find
titleMatches(title, normalizedFilename) ==
    LET imgTitle == toLowerCase(title) IN
    \/ imgTitle = normalizedFilename
    \/ includes(imgTitle, normalizedFilename)
    \/ includes(normalizedFilename, imgTitle)
    \/ stripExtension(imgTitle) = stripExtension(normalizedFilename)

find_orFirst(images, filename) ==
    LET normalizedFilename == trim(toLowerCase(filename))
        hits == {k \in 1..Len(images) : titleMatches(images[k].title, normalizedFilename)}
    IN  IF hits # {} THEN Min(hits)
        ELSE IF images # <<>> THEN 1 ELSE 0

find_exactFirst(images, filename) ==
    LET normalizedFilename == trim(toLowerCase(filename))
        exact == {k \in 1..Len(images) :
                     toLowerCase(images[k].title) = normalizedFilename}
        hits == {k \in 1..Len(images) : titleMatches(images[k].title, normalizedFilename)}
    IN  IF exact # {} THEN Min(exact)
        ELSE IF hits = {} THEN 0 ELSE Min(hits)

\* processedImages.find(...): the place of the first image the predicate
\* holds of, 0 for undefined.
find(images, filename) ==
    LET normalizedFilename == trim(toLowerCase(filename))
        hits == {k \in 1..Len(images) : titleMatches(images[k].title, normalizedFilename)}
    IN  IF hits = {} THEN 0 ELSE Min(hits)

\* The media block of an image, one element of the text.
imgTag(img) == <<"figure" \o ToString(img.id)>>

RECURSIVE replaceAll(_, _, _)
replaceAll(text, pattern, replacement) ==
    LET at == {p \in 1..Len(text) : hasAt(text, p, pattern)} IN
    IF at = {} THEN text
    ELSE SubSeq(text, 1, Min(at) - 1) \o replacement
         \o replaceAll(SubSeq(text, Min(at) + Len(pattern), Len(text)),
                       pattern, replacement)

\* formattedResponse.replace(placeholder, imgTag): the first occurrence.
replace(text, pattern, replacement) ==
    LET at == {p \in 1..Len(text) : hasAt(text, p, pattern)} IN
    IF at = {} THEN text
    ELSE SubSeq(text, 1, Min(at) - 1) \o replacement
         \o SubSeq(text, Min(at) + Len(pattern), Len(text))

\* formatResponse up to the end of the while loop.
ExtractPlaceholders ==
    /\ pc = "format"
    /\ imagePlaceholders' = assignAll(<<>>, execAll(geminiResponse, 1))
    /\ formattedResponse' = geminiResponse
    /\ resolved' = <<>>
    /\ pc' = "substitute"
    /\ UNCHANGED <<script, geminiResponse, description, altText, failed,
                   admVars, runVars>>

\* One turn of Object.entries(imagePlaceholders).forEach
ResolvePlaceholder ==
    /\ pc = "substitute"
    /\ Len(resolved) < Len(imagePlaceholders)
    /\ LET entry == imagePlaceholders[Len(resolved) + 1]
           img == find(processedImages, entry.filename)
       IN  /\ resolved' = Append(resolved, IF img = 0 THEN 0 ELSE processedImages[img].id)
           /\ formattedResponse' =
                  IF img = 0 THEN formattedResponse
                  ELSE replace(formattedResponse, entry.placeholder,
                               imgTag(processedImages[img]))
    /\ UNCHANGED <<script, pc, geminiResponse, imagePlaceholders, description,
                   altText, failed, admVars, runVars>>

\* After the last turn the text goes to marked.parse.
Render ==
    /\ pc = "substitute"
    /\ Len(resolved) = Len(imagePlaceholders)
    /\ pc' = "rendered"
    /\ UNCHANGED <<script, textVars, failed, admVars, runVars>>

(***************************************************************************)
(* GeminiAPI, UIController and AppController.processQuestion               *)
(***************************************************************************)
NoKey == <<>>
Keys == {NoKey, <<"k">>}
Questions == {<<>>, <<"q">>}

Endpoints ==
    {"terms_relay", "terms_direct", "analyze_relay", "analyze_direct",
     "search", "detail"}

NoCalls == [e \in Endpoints |-> 0]

sent_twice(c, e, n) == [c EXCEPT ![e] = @ + n + n]

sent(c, e, n) == [c EXCEPT ![e] = @ + n]

\* How a request to a model endpoint can end: a well-formed answer, a
\* non-success status, a transport error, a body without the envelope.
ModelAnswers == {"ok", "status", "transport", "envelope"}

Shown(kind, what) == [kind |-> kind, what |-> what]
NothingShown == Shown("empty", "none")

Disabled_never(b) == FALSE

\* button.disabled as updateButtonState sets it
Disabled(b) == b \in {"processing", "finding", "analyzing"}

setUseProxy_stuck(useProxy) == TRUE

setUseProxy(useProxy) == useProxy

\* The state after the page has loaded.
InitPage ==
    /\ checkbox = TRUE
    /\ usingProxy = TRUE
    /\ apiKey = NoKey
    /\ runUseProxy = TRUE
    /\ alert = "none"
    /\ button = "initial"
    /\ loading = FALSE
    /\ response = NothingShown
    /\ calls = NoCalls
    /\ proxyLog = "none"
    /\ searchTerms = <<>>
    /\ searchSettled = {}
    /\ searchResults = <<>>
    /\ allImageResults = <<>>
    /\ detailSettled = {}
    /\ detailResults = <<>>
    /\ failed = {}

\* The run goes on: the button shows state b, the indicator stays.
Running(b) ==
    /\ button' = b
    /\ loading' = TRUE
    /\ response' = NothingShown

Fail_silent(message) ==
    /\ pc' = "idle"
    /\ button' = "initial"
    /\ loading' = FALSE
    /\ response' = response

\* catch: hideLoading, showError; finally: hideLoading
Fail(message) ==
    /\ pc' = "idle"
    /\ button' = "initial"
    /\ loading' = FALSE
    /\ response' = Shown("error", message)

\* The direct path of getSearchTerms / analyzeImages (stage = "terms" or
\* "analyze"): without a key it throws, with one it sends the request.
DirectPath_noKeyCheck(stage, key, c, b) ==
    /\ pc' = (IF stage = "terms" THEN "terms_direct" ELSE "analyze_direct")
    /\ calls' = sent(c, IF stage = "terms" THEN "terms_direct"
                                          ELSE "analyze_direct", 1)
    /\ Running(b)

DirectPath(stage, key, c, b) ==
    IF key = NoKey
    THEN /\ Fail("keyRequired")
         /\ calls' = c
    ELSE /\ pc' = (IF stage = "terms" THEN "terms_direct" ELSE "analyze_direct")
         /\ calls' = sent(c, IF stage = "terms" THEN "terms_direct"
                                               ELSE "analyze_direct", 1)
         /\ Running(b)

ModelCall_directOnly(stage, flag, key, c, b) ==
    /\ proxyLog' = "none"
    /\ DirectPath(stage, key, c, b)

\* The start of getSearchTerms / analyzeImages: the relay first when the
\* flag is set ("Attempting to use API proxy" is logged), the direct path
\* otherwise.
ModelCall(stage, flag, key, c, b) ==
    IF flag
    THEN /\ proxyLog' = "attempting"
         /\ pc' = (IF stage = "terms" THEN "terms_relay" ELSE "analyze_relay")
         /\ calls' = sent(c, IF stage = "terms" THEN "terms_relay"
                                               ELSE "analyze_relay", 1)
         /\ Running(b)
    ELSE /\ proxyLog' = "none"
         /\ DirectPath(stage, key, c, b)

\* The locals of a run, as a new run finds them.
FreshLocals ==
    /\ imageDetails' = <<>>
    /\ i' = 0
    /\ probe' = NoProbe
    /\ processedImages' = <<>>
    /\ totalPayloadSize' = 0
    /\ probed' = {}
    /\ fetched' = {}
    /\ previews' = <<>>
    /\ last' = NoLog
    /\ overBudget' = {}
    /\ searchTerms' = <<>>
    /\ searchSettled' = {}
    /\ searchResults' = <<>>
    /\ allImageResults' = <<>>
    /\ detailSettled' = {}
    /\ detailResults' = <<>>
    /\ failed' = {}

\* A click on the submit button: the handler's two checks, setUseProxy,
\* and processQuestion up to its first await.
Click ==
    /\ ~Disabled(button)
    /\ \E question \in Questions, key \in Keys :
         IF question = <<>>
         THEN /\ alert' = "question"
              /\ UNCHANGED <<script, textVars, failed, pc, admVars, checkbox, usingProxy, apiKey,
                             runUseProxy, button, loading, response, stageVars>>
         ELSE IF ~checkbox /\ key = NoKey
         THEN /\ alert' = "key"
              /\ UNCHANGED <<script, textVars, failed, pc, admVars, checkbox, usingProxy, apiKey,
                             runUseProxy, button, loading, response, stageVars>>
         ELSE /\ alert' = "none"
              /\ runUseProxy' = checkbox
              /\ usingProxy' = setUseProxy(checkbox)
              /\ apiKey' = key
              /\ FreshLocals
              /\ IF ~usingProxy' /\ key = NoKey
                 THEN /\ Fail("keyRequiredNoProxy")
                      /\ calls' = NoCalls
                      /\ proxyLog' = "none"
                 ELSE ModelCall("terms", usingProxy', key, NoCalls, "processing")
              /\ UNCHANGED <<script, textVars, checkbox>>

Toggle_applies ==
    /\ checkbox' = ~checkbox
    /\ usingProxy' = setUseProxy(checkbox')
    /\ UNCHANGED <<script, textVars, failed, pc, admVars, apiKey, runUseProxy, alert,
                   button, loading, response, stageVars>>

\* The user flips the relay checkbox; the change handler only relabels
\* the key field.
Toggle ==
    /\ checkbox' = ~checkbox
    /\ UNCHANGED <<script, textVars, failed, pc, admVars, usingProxy, apiKey, runUseProxy, alert,
                   button, loading, response, stageVars>>

\* getSearchTerms has its terms: the button shows "finding" and one search
\* request per term is sent.
TermsArrive(text) ==
    LET terms == parseSearchTerms(text) IN
    /\ searchTerms' = terms
    /\ searchSettled' = {}
    /\ searchResults' = [t \in 1..Len(terms) |-> <<>>]
    /\ calls' = sent(calls, "search", Len(terms))
    /\ pc' = "search"
    /\ Running("finding")

TermsRelaySettles ==
    /\ pc = "terms_relay"
    /\ \E a \in ModelAnswers, text \in Replies :
         /\ proxyLog' = a
         /\ IF a = "ok"
            THEN TermsArrive(text)
            ELSE /\ DirectPath("terms", apiKey, calls, button)
                 /\ UNCHANGED <<searchTerms, searchSettled, searchResults>>
    /\ UNCHANGED <<script, textVars, failed, admVars, checkbox, usingProxy, apiKey, runUseProxy,
                   alert, allImageResults, detailSettled, detailResults>>

TermsDirectSettles ==
    /\ pc = "terms_direct"
    /\ \E a \in ModelAnswers, text \in Replies :
         IF a = "ok"
         THEN TermsArrive(text)
         ELSE /\ Fail(a)
              /\ UNCHANGED <<calls, searchTerms, searchSettled, searchResults>>
    /\ UNCHANGED <<script, textVars, failed, admVars, checkbox, usingProxy, apiKey, runUseProxy,
                   alert, proxyLog, allImageResults, detailSettled,
                   detailResults>>

\* What a search request can answer: a failure (caught, an empty list) or
\* a list of at most maxHits candidates.
SearchAnswers(maxHits) ==
    {[ok |-> FALSE, hits |-> 0]} \cup {[ok |-> TRUE, hits |-> h] : h \in 0..maxHits}

\* The candidates of term t: the rank stands for title and page id.
Hits(t, h) == [r \in 1..h |-> [term |-> t, rank |-> r]]

searchImages(t, a) == IF a.ok THEN Hits(t, a.hits) ELSE <<>>

SearchSettles(maxHits) ==
    /\ pc = "search"
    /\ \E t \in (1..Len(searchTerms)) \ searchSettled, a \in SearchAnswers(maxHits) :
         /\ searchSettled' = searchSettled \cup {t}
         /\ searchResults' = [searchResults EXCEPT ![t] = searchImages(t, a)]
         /\ failed' = IF a.ok THEN failed ELSE failed \cup {<<"search", t>>}
    /\ UNCHANGED <<script, textVars, pc, admVars, uiVars, calls, proxyLog, searchTerms,
                   allImageResults, detailSettled, detailResults>>

allSettled_any(settled, n) == settled # {}

\* await Promise.all(promises): every one of the n requests has settled.
allSettled(settled, n) == settled = 1..n

RECURSIVE flat_backwards(_)
flat_backwards(seqs) ==
    IF seqs = <<>> THEN <<>> ELSE flat_backwards(Tail(seqs)) \o Head(seqs)

RECURSIVE flat(_)
flat(seqs) == IF seqs = <<>> THEN <<>> ELSE Head(seqs) \o flat(Tail(seqs))

slice_tail(seq, n) ==
    IF Len(seq) > n THEN SubSeq(seq, Len(seq) - n + 1, Len(seq)) ELSE seq

slice(seq, n) == IF Len(seq) > n THEN SubSeq(seq, 1, n) ELSE seq

NoDetail == [found |-> FALSE, url |-> <<>>]

\* Promise.all of the searches has resolved: flatten, cap, and either
\* fail for want of candidates or send one detail request per candidate.
SearchDone ==
    /\ pc = "search"
    /\ allSettled(searchSettled, Len(searchTerms))
    /\ LET all == slice(flat(searchResults), MaxCandidates) IN
       IF all = <<>>
       THEN /\ Fail("noImages")
            /\ UNCHANGED <<calls, allImageResults, detailSettled, detailResults>>
       ELSE /\ allImageResults' = all
            /\ detailSettled' = {}
            /\ detailResults' = [k \in 1..Len(all) |-> NoDetail]
            /\ calls' = sent(calls, "detail", Len(all))
            /\ pc' = "details"
            /\ Running(button)
    /\ UNCHANGED <<script, textVars, failed, admVars, checkbox, usingProxy, apiKey, runUseProxy,
                   alert, proxyLog, searchTerms, searchSettled, searchResults>>

\* What a detail request can answer: null (a failure, a missing page) or
\* a detail with one of the given URLs.
DetailAnswers(urls) == {NoDetail} \cup {[found |-> TRUE, url |-> u] : u \in urls}

DetailSettles(urls) ==
    /\ pc = "details"
    /\ \E k \in (1..Len(allImageResults)) \ detailSettled, d \in DetailAnswers(urls) :
         /\ detailSettled' = detailSettled \cup {k}
         /\ detailResults' = [detailResults EXCEPT ![k] = d]
         /\ failed' = IF d.found THEN failed ELSE failed \cup {<<"detail", k>>}
    /\ UNCHANGED <<script, textVars, pc, admVars, uiVars, calls, proxyLog, searchTerms,
                   searchSettled, searchResults, allImageResults>>

\* (await Promise.all(...)).filter(Boolean): the details found, in the
\* order of their candidates; the id of a detail is its candidate's place.
filterBoolean_untilNull(results) ==
    LET firstNull == IF \E k \in 1..Len(results) : ~results[k].found
                     THEN CHOOSE k \in 1..Len(results) :
                              /\ ~results[k].found
                              /\ \A j \in 1..(k - 1) : results[j].found
                     ELSE Len(results) + 1
    IN  [k \in 1..(firstNull - 1) |-> [id |-> k, url |-> results[k].url]]

filterBoolean(results) ==
    LET tagged == [k \in 1..Len(results) |->
                      [id |-> k, found |-> results[k].found, url |-> results[k].url]]
        kept == SelectSeq(tagged, LAMBDA d : d.found)
    IN  [k \in 1..Len(kept) |-> [id |-> kept[k].id, url |-> kept[k].url]]

\* Promise.all of the lookups has resolved: admission starts.
DetailsDone ==
    /\ pc = "details"
    /\ allSettled(detailSettled, Len(allImageResults))
    /\ imageDetails' = filterBoolean(detailResults)
    /\ pc' = "loop"
    /\ UNCHANGED <<script, textVars, failed, i, probe, processedImages, totalPayloadSize, probed,
                   fetched, previews, last, overBudget, runVars>>

\* processImages has returned: the button shows "analyzing" and
\* analyzeImages starts.
StartAnalyze ==
    /\ pc = "returned"
    /\ ModelCall("analyze", usingProxy, apiKey, calls, "analyzing")
    /\ UNCHANGED <<script, textVars, failed, admVars, checkbox, usingProxy, apiKey, runUseProxy,
                   alert, searchTerms, searchSettled, searchResults,
                   allImageResults, detailSettled, detailResults>>

\* analyzeImages has its answer: it is formatted and displayed, and the
\* finally block hides the indicator.
AnswerArrives(from) ==
    /\ pc' = "idle"
    /\ button' = "initial"
    /\ loading' = FALSE
    /\ response' = Shown("answer", from)
    /\ UNCHANGED calls

AnalyzeRelaySettles ==
    /\ pc = "analyze_relay"
    /\ \E a \in ModelAnswers :
         /\ proxyLog' = a
         /\ IF a = "ok"
            THEN AnswerArrives("relay")
            ELSE DirectPath("analyze", apiKey, calls, button)
    /\ UNCHANGED <<script, textVars, failed, admVars, checkbox, usingProxy, apiKey, runUseProxy,
                   alert, searchTerms, searchSettled, searchResults,
                   allImageResults, detailSettled, detailResults>>

AnalyzeDirectSettles ==
    /\ pc = "analyze_direct"
    /\ \E a \in ModelAnswers :
         IF a = "ok"
         THEN AnswerArrives("direct")
         ELSE /\ Fail(a)
              /\ UNCHANGED calls
    /\ UNCHANGED <<script, textVars, failed, admVars, checkbox, usingProxy, apiKey, runUseProxy,
                   alert, proxyLog, searchTerms, searchSettled, searchResults,
                   allImageResults, detailSettled, detailResults>>

(***************************************************************************)
(* Admission on every short ImageDetail sequence                           *)
(***************************************************************************)
Scripts == {"app", "old"}

Urls == {UrlGif, UrlGifUp, UrlSvg, UrlJpg}

\* Every sequence of details with URLs of the given set and a length of
\* the given set; the id of a detail stands for the identity of the object.
Details(urls, lens) ==
    UNION { { [k \in 1..n |-> [id |-> k, url |-> f[k]]] : f \in [1..n -> urls] }
            : n \in lens }

InitAdmit ==
    /\ script \in Scripts
    /\ pc = "loop"
    /\ \E d \in Details(Urls, 0..MaxInput) : AdmissionStart(d)
    /\ InitPage
    /\ TextStart(<<>>)

NextAdmit ==
    \/ TakeImage
    \/ ProbeSettles(Probes(script))
    \/ FetchSettles(Payloads(script), MaxCandidates)
    \/ ReturnImages

SpecAdmit == InitAdmit /\ [][NextAdmit]_vars

(***************************************************************************)
(* Admission on the long sequences the detail stage can hand over: at most *)
(* MaxCandidates details (the candidate list is cut to that length), all   *)
(* of them plain images, of which at most MaxSkips fail to download.       *)
(***************************************************************************)
InitCap ==
    /\ script \in Scripts
    /\ pc = "loop"
    /\ \E d \in Details({UrlJpg}, 0..MaxCandidates) : AdmissionStart(d)
    /\ InitPage
    /\ TextStart(<<>>)

NextCap ==
    \/ TakeImage
    \/ ProbeSettles(ProbesPlain(script))
    \/ FetchSettles(PayloadsPlain(script), MaxSkips)
    \/ ReturnImages

SpecCap == InitCap /\ [][NextCap]_vars

(***************************************************************************)
(* A page of app.js in use: clicks, toggles and whole runs                 *)
(***************************************************************************)
ProbesRun(s) == {[ok |-> FALSE, len |-> NoLength], [ok |-> TRUE, len |-> NoLength]}

UrlsRun == {UrlJpg}

Init ==
    /\ script = "app"
    /\ pc = "idle"
    /\ AdmissionStart(<<>>)
    /\ InitPage
    /\ TextStart(<<>>)

Next ==
    \/ Click
    \/ Toggle
    \/ TermsRelaySettles
    \/ TermsDirectSettles
    \/ SearchSettles(MaxHits)
    \/ SearchDone
    \/ DetailSettles(UrlsRun)
    \/ DetailsDone
    \/ TakeImage
    \/ ProbeSettles(ProbesRun(script))
    \/ FetchSettles(PayloadsPlain(script), MaxCandidates)
    \/ ReturnImages
    \/ StartAnalyze
    \/ AnalyzeRelaySettles
    \/ AnalyzeDirectSettles

Spec == Init /\ [][Next]_vars

(***************************************************************************)
(* getSearchTerms on every short reply text                                *)
(***************************************************************************)
MaxReply == 4

\* Every text of at most n characters over the given alphabet.
Texts(alphabet, n) == UNION { [1..k -> alphabet] : k \in 0..n }

ReplyAlphabet == {"a", ",", " "}

InitTerms ==
    /\ script = "app"
    /\ pc = "terms_reply"
    /\ AdmissionStart(<<>>)
    /\ InitPage
    /\ \E text \in Texts(ReplyAlphabet, MaxReply) : TextStart(text)

NextTerms == ParseTerms

SpecTerms == InitTerms /\ [][NextTerms]_vars

(***************************************************************************)
(* formatResponse on short answers and short ProcessedImage sequences      *)
(***************************************************************************)
MaxSegments == 2
MaxImages == 2

TitleDog == <<"d", "o", "g", ".", "p", "n", "g">>
TitleCat == <<"c", "a", "t", ".", "p", "n", "g">>
TitleGolden ==
    <<"g", "o", "l", "d", "e", "n", "_", "r", "e", "t", "r", "i", "e",
      "v", "e", "r", "_", "d", "o", "g", ".", "p", "n", "g">>
NameDogUpper == <<"D", "o", "g", ".", "P", "N", "G">>
NameGolden ==
    <<"g", "o", "l", "d", "e", "n", "_", "r", "e", "t", "r", "i", "e",
      "v", "e", "r">>
NameDogJpg == <<"d", "o", "g", ".", "j", "p", "g">>
NameBird == <<"b", "i", "r", "d">>
NameEmpty == <<>>

Titles == {TitleDog, TitleCat, TitleGolden}

Filenames == {NameDogUpper, NameGolden, NameDogJpg, NameBird, NameEmpty}

token(filename) == Open \o filename \o Close

\* The pieces an answer is made of: a token, or text without a token.
Segments == {token(f) : f \in Filenames} \cup {<<"s", " ">>}

\* Every answer of at most n segments.
RECURSIVE Answers(_)
Answers(n) ==
    IF n = 0 THEN {<<>>}
    ELSE Answers(n - 1) \cup {a \o g : a \in Answers(n - 1), g \in Segments}

\* Every ProcessedImage sequence of at most n images with the given titles.
Processed(titles, n) ==
    UNION { { [k \in 1..m |-> [id |-> k, title |-> f[k]]] : f \in [1..m -> titles] }
            : m \in 0..n }

InitFormat ==
    /\ script = "app"
    /\ pc = "format"
    /\ processedImages \in Processed(Titles, MaxImages)
    /\ imageDetails = <<>>
    /\ i = 0
    /\ probe = NoProbe
    /\ totalPayloadSize = 0
    /\ probed = {}
    /\ fetched = {}
    /\ previews = <<>>
    /\ last = NoLog
    /\ overBudget = {}
    /\ InitPage
    /\ \E answer \in Answers(MaxSegments) : TextStart(answer)

NextFormat ==
    \/ ExtractPlaceholders
    \/ ResolvePlaceholder
    \/ Render

SpecFormat == InitFormat /\ [][NextFormat]_vars

(***************************************************************************)
(* formatResponse on answers whose tokens enclose nothing but white space  *)
(***************************************************************************)
NameBlank == <<" ">>
NameTabs == <<"\t", " ">>

BlankFilenames == {NameEmpty, NameBlank, NameTabs, NameBird}

BlankSegments == {token(f) : f \in BlankFilenames} \cup {<<"s", " ">>}

RECURSIVE BlankAnswers(_)
BlankAnswers(n) ==
    IF n = 0 THEN {<<>>}
    ELSE BlankAnswers(n - 1)
             \cup {a \o g : a \in BlankAnswers(n - 1), g \in BlankSegments}

InitBlank ==
    /\ script = "app"
    /\ pc = "format"
    /\ processedImages \in Processed(Titles, MaxImages)
    /\ imageDetails = <<>>
    /\ i = 0
    /\ probe = NoProbe
    /\ totalPayloadSize = 0
    /\ probed = {}
    /\ fetched = {}
    /\ previews = <<>>
    /\ last = NoLog
    /\ overBudget = {}
    /\ InitPage
    /\ \E answer \in BlankAnswers(MaxSegments) : TextStart(answer)

SpecBlank == InitBlank /\ [][NextFormat]_vars

(***************************************************************************)
(* The end of the search stage for many terms: every search has settled,   *)
(* each with at most srlimit candidates.                                   *)
(***************************************************************************)
MaxTerms == 6

\* srlimit=3
SearchLimit == 3

InitCandidates ==
    /\ script = "app"
    /\ pc = "search"
    /\ AdmissionStart(<<>>)
    /\ TextStart(<<>>)
    /\ checkbox = TRUE
    /\ usingProxy = TRUE
    /\ apiKey = NoKey
    /\ runUseProxy = TRUE
    /\ alert = "none"
    /\ button = "finding"
    /\ loading = TRUE
    /\ response = NothingShown
    /\ proxyLog = "ok"
    /\ failed = {}
    /\ allImageResults = <<>>
    /\ detailSettled = {}
    /\ detailResults = <<>>
    /\ \E n \in 1..MaxTerms :
         /\ searchTerms = [t \in 1..n |-> <<"a">>]
         /\ searchSettled = 1..n
         /\ calls = sent(sent(NoCalls, "terms_relay", 1), "search", n)
         /\ \E h \in [1..n -> 0..SearchLimit] :
                searchResults = [t \in 1..n |-> Hits(t, h[t])]

NextCandidates == SearchDone

SpecCandidates == InitCandidates /\ [][NextCandidates]_vars

(***************************************************************************)
(* The alt text for descriptions of about the limit's length               *)
(***************************************************************************)
MaxOver == 3
MaxPad == 2

Repeat(c, n) == [k \in 1..n |-> c]

\* Descriptions: n letters between at most MaxPad blanks on either side,
\* n within MaxOver of the limit.
Descriptions ==
    {Repeat(" ", a) \o Repeat("x", n) \o Repeat(" ", b) :
        a \in 0..MaxPad, b \in 0..MaxPad,
        n \in (AltLimit - MaxOver)..(AltLimit + MaxOver)}

InitAlt ==
    /\ script = "app"
    /\ pc = "alt_source"
    /\ AdmissionStart(<<>>)
    /\ InitPage
    /\ geminiResponse = <<>>
    /\ imagePlaceholders = <<>>
    /\ formattedResponse = <<>>
    /\ resolved = <<>>
    /\ description \in Descriptions
    /\ altText = <<>>

NextAlt == CleanAltText

SpecAlt == InitAlt /\ [][NextAlt]_vars

(***************************************************************************)
(* Properties of admission                                                 *)
(***************************************************************************)
RECURSIVE SumOfEstimates(_)
SumOfEstimates(images) ==
    IF images = <<>> THEN 0
    ELSE estimateBase64Size(Head(images).base64) + SumOfEstimates(Tail(images))

Ids(images) == [k \in 1..Len(images) |-> images[k].id]

IsPrefix(s, t) == Len(s) <= Len(t) /\ SubSeq(t, 1, Len(s)) = s

StrictlyIncreasing(ids) ==
    \A a, b \in 1..Len(ids) : a < b => ids[a] < ids[b]

\* C1: at every point of an admission pass the accumulator totalPayloadSize
\* is at most MAX_PAYLOAD_SIZE, and so is the sum of the estimates of the
\* images admitted (and returned).
C1_BudgetNeverExceeded ==
    /\ totalPayloadSize <= MAX_PAYLOAD_SIZE(script)
    /\ SumOfEstimates(processedImages) <= MAX_PAYLOAD_SIZE(script)

\* A pass has returned two images that leave no room for the third, which
\* the budget step refused.
C1_Witness ==
    /\ pc = "returned"
    /\ Len(processedImages) = 2
    /\ last.kind = "budget"
    /\ totalPayloadSize + last.size > MAX_PAYLOAD_SIZE(script)

C4_NoGif ==
    LET GifUrls == {UrlGif, UrlGifUp} IN
    /\ \A k \in 1..Len(processedImages) : processedImages[k].url \notin GifUrls
    /\ \A k \in 1..Len(previews) : imageDetails[previews[k]].url \notin GifUrls
    /\ probed \cap GifUrls = {}
    /\ fetched \cap GifUrls = {}

\* A pass over a sequence holding an upper-case GIF before an image that
\* was admitted.
C4_Witness ==
    /\ pc = "returned"
    /\ \E a, b \in 1..Len(imageDetails) :
         /\ a < b
         /\ imageDetails[a].url = UrlGifUp
         /\ \E k \in 1..Len(processedImages) : processedImages[k].id = b

\* C5 as stated: the admitted sequence is a prefix of the sequence of the
\* images in the order evaluated.
C5_PrefixOfEvaluated ==
    IsPrefix(Ids(processedImages), Ids(SubSeq(imageDetails, 1, i)))

\* C5 as amended: the admitted sequence is a subsequence of the images
\* evaluated so far, in the order evaluated (with gaps where images were
\* skipped), and the returned sequence is a prefix of the accepted ones.
C5_SubsequenceOfEvaluated ==
    /\ StrictlyIncreasing(Ids(processedImages))
    /\ \A k \in 1..Len(processedImages) :
         /\ processedImages[k].id \in 1..i
         /\ processedImages[k].url = imageDetails[processedImages[k].id].url
    /\ IsPrefix(Ids(processedImages), previews)

\* The first image was skipped and two later ones were admitted.
C5_Witness ==
    /\ pc = "returned"
    /\ Len(processedImages) = 2
    /\ processedImages[1].id = 2

PositionOf(id) == CHOOSE j \in 1..Len(imageDetails) : imageDetails[j].id = id

Before(c, d) == c.term < d.term \/ (c.term = d.term /\ c.rank < d.rank)

\* C6: any two images of the ProcessedImage sequence stand in the order they
\* have in the ImageDetail sequence, which is the order of their candidates
\* in the search results (term order, then rank within the term), and no
\* image stands in it twice.
C6_OrderKept ==
    \A a, b \in 1..Len(processedImages) :
        a < b =>
            /\ PositionOf(processedImages[a].id) < PositionOf(processedImages[b].id)
            /\ Before(allImageResults[processedImages[a].id],
                      allImageResults[processedImages[b].id])

\* A run in which the second result of the first term and the first result
\* of the second term were admitted, in that order, the searches having
\* settled in the opposite order of the terms or not.
C6_Witness ==
    /\ pc = "returned"
    /\ Len(processedImages) = 2
    /\ allImageResults[processedImages[1].id] = [term |-> 1, rank |-> 2]
    /\ allImageResults[processedImages[2].id] = [term |-> 2, rank |-> 1]

\* C7: an image that reaches the budget step is accepted exactly when the
\* accumulator plus its estimate is at most the total budget, whatever its
\* probe answered; a budget skip does not end the pass, which evaluates
\* every image before it returns.
C7_GreedyInOrder ==
    /\ last.kind \in {"budget", "added"} =>
         (last.kind = "added" <=>
             last.before + last.size <= MAX_PAYLOAD_SIZE(script))
    /\ last.kind = "added" =>
         /\ processedImages # <<>>
         /\ processedImages[Len(processedImages)].id = last.id
         /\ totalPayloadSize = last.before + last.size
    /\ last.kind = "budget" =>
         /\ \E r \in overBudget : r.id = last.id
         /\ totalPayloadSize = last.before
    /\ \A r \in overBudget : \A k \in 1..Len(processedImages) :
         processedImages[k].id # r.id
    /\ pc = "returned" => i = Len(imageDetails)

\* The second of three images was refused by the budget step although its
\* probe reported a size within the ceiling, and the third was accepted.
C7_Witness ==
    /\ pc = "returned"
    /\ \E r \in overBudget : r.id = 2 /\ r.probe.len = CeilingBytes(script)
    /\ Ids(processedImages) = <<1, 3>>

(***************************************************************************)
(* Properties of the model invocation                                      *)
(***************************************************************************)
RelayFailures == {"status", "transport", "envelope"}

\* C8: with the relay enabled analyzeImages asks the relay first; after any
\* relay failure (status, transport, envelope) it asks the direct endpoint
\* with the key of the run; the direct endpoint is not asked when the relay
\* succeeded; and the answer shown is the relay's when the relay succeeded
\* and the direct endpoint's when the relay failed.
C8_RelayThenDirect ==
    usingProxy =>
        /\ calls["analyze_direct"] > 0 =>
               calls["analyze_relay"] = 1 /\ proxyLog \in RelayFailures
        /\ pc \in {"analyze_relay", "analyze_direct"} => calls["analyze_relay"] = 1
        /\ (calls["analyze_relay"] = 1 /\ proxyLog \in RelayFailures
               /\ apiKey # NoKey) => calls["analyze_direct"] = 1
        /\ pc = "analyze_relay" => proxyLog = "attempting"
        /\ response.kind = "answer" =>
               /\ calls["analyze_relay"] = 1
               /\ IF proxyLog = "ok"
                  THEN response.what = "relay" /\ calls["analyze_direct"] = 0
                  ELSE /\ response.what = "direct"
                       /\ proxyLog \in RelayFailures
                       /\ calls["analyze_direct"] = 1

\* The relay answered the analysis request with a server error and the
\* direct endpoint's answer is shown.
C8_Witness ==
    /\ usingProxy
    /\ pc = "idle"
    /\ proxyLog = "status"
    /\ response = Shown("answer", "direct")
    /\ calls["analyze_relay"] = 1
    /\ calls["analyze_direct"] = 1

\* C9: a run without a credential never sends a request to the direct
\* endpoint, and once its relay request has failed the run has ended with
\* the credential-required error.
C9_NoKeyNoDirectCall ==
    apiKey = NoKey =>
        /\ calls["terms_direct"] = 0
        /\ calls["analyze_direct"] = 0
        /\ pc \notin {"terms_direct", "analyze_direct"}
        /\ proxyLog \in RelayFailures =>
               /\ pc = "idle"
               /\ response = Shown("error", "keyRequired")
               /\ ~Disabled(button)

\* A run without a credential whose relay request for the analysis failed
\* after the relay had served the terms.
C9_Witness ==
    /\ apiKey = NoKey
    /\ calls["analyze_relay"] = 1
    /\ proxyLog = "transport"
    /\ response = Shown("error", "keyRequired")

\* C10: in a run started with the relay checkbox off no request goes to the
\* relay endpoint; and a click with the checkbox off and no credential
\* starts no run and sends no request of any kind.
C10_RelayDisabled ==
    /\ [](~runUseProxy =>
            /\ calls["terms_relay"] = 0
            /\ calls["analyze_relay"] = 0
            /\ pc \notin {"terms_relay", "analyze_relay"}
            /\ apiKey # NoKey)
    /\ [][alert' = "key" /\ alert # "key" =>
            /\ ~checkbox
            /\ pc = "idle"
            /\ UNCHANGED <<pc, calls, probed, fetched, button, loading,
                           response, usingProxy>>]_vars

\* A run started with the checkbox off has sent its analysis request to the
\* direct endpoint.
C10_Witness ==
    /\ ~runUseProxy
    /\ ~usingProxy
    /\ pc = "analyze_direct"
    /\ calls["terms_direct"] = 1
    /\ calls["search"] > 0

(***************************************************************************)
(* Properties of term generation                                           *)
(***************************************************************************)
\* C11: whenever getSearchTerms returns, its result has at least one term
\* and every term is trimmed and non-empty, whatever the reply text.
C11_TermsTrimmedNonEmpty ==
    pc = "terms_parsed" =>
        /\ Len(searchTerms) >= 1
        /\ \A k \in 1..Len(searchTerms) :
               /\ searchTerms[k] # <<>>
               /\ trim(searchTerms[k]) = searchTerms[k]

\* What the parse does guarantee: at least one term, every term trimmed,
\* and as many terms as the trimmed reply has commas plus one.
C11_TermsTrimmed ==
    pc = "terms_parsed" =>
        /\ Len(searchTerms) =
               1 + Cardinality({k \in 1..Len(trim(geminiResponse)) :
                                   trim(geminiResponse)[k] = ","})
        /\ \A k \in 1..Len(searchTerms) : trim(searchTerms[k]) = searchTerms[k]

\* A reply with two consecutive commas has been parsed into three terms,
\* the middle one empty.
C11_Witness ==
    /\ pc = "terms_parsed"
    /\ geminiResponse = <<"a", ",", ",", "a">>
    /\ searchTerms = <<(<<"a">>), <<>>, <<"a">>>>

ModelEndpoints == {"terms_relay", "terms_direct", "analyze_relay", "analyze_direct"}

\* C12 as stated: in one run at most one upstream model call is made to
\* obtain the search terms.
C12_OneTermsCall ==
    calls["terms_relay"] + calls["terms_direct"] <= 1

\* C12, amended: in one run no model endpoint is asked twice; the direct
\* endpoint is asked for terms after the relay only when the relay was
\* enabled and its request failed; every search and detail request is sent
\* once; and when the last term request failed the run has ended with an
\* error and without any search.
C12_NoRetryButFallback ==
    /\ \A e \in ModelEndpoints : calls[e] <= 1
    /\ calls["terms_relay"] = 1 => usingProxy
    /\ (calls["terms_direct"] = 1 /\ usingProxy) => calls["terms_relay"] = 1
    /\ (pc = "terms_direct" /\ usingProxy) => proxyLog \in RelayFailures
    /\ (calls["terms_direct"] = 1 /\ pc # "terms_direct" /\ calls["search"] = 0) =>
           /\ pc = "idle"
           /\ response.kind = "error"
           /\ response.what \in RelayFailures
    /\ pc \in {"terms_relay", "terms_direct"} =>
           calls["search"] = 0 /\ calls["analyze_relay"] = 0
                /\ calls["analyze_direct"] = 0
    /\ pc \notin {"idle", "terms_relay", "terms_direct"} =>
           calls["search"] = Len(searchTerms)
    /\ pc \notin {"idle", "terms_relay", "terms_direct", "search"} =>
           calls["detail"] = Len(allImageResults)

\* The relay failed for the term request, the direct endpoint served it,
\* and the searches are under way.
C12_Witness ==
    /\ pc = "search"
    /\ calls["terms_relay"] = 1
    /\ calls["terms_direct"] = 1
    /\ calls["search"] = 2

(***************************************************************************)
(* Properties of the two fan-out stages                                    *)
(***************************************************************************)
\* C13: a failed search request contributes an empty candidate list and a
\* failed or not-found detail lookup a no-detail signal; the run ends with
\* the no-images error only when no search gave a candidate, and otherwise
\* the candidates of all terms, cut to the first MaxCandidates, and the
\* details of all candidates that have one are passed on in request order.
C13_ItemFailuresNotFatal ==
    /\ \A t \in searchSettled :
           <<"search", t>> \in failed => searchResults[t] = <<>>
    /\ \A k \in detailSettled :
           <<"detail", k>> \in failed => detailResults[k] = NoDetail
    /\ response = Shown("error", "noImages") =>
           \A t \in 1..Len(searchResults) : searchResults[t] = <<>>
    /\ pc \notin {"idle", "terms_relay", "terms_direct", "search"} =>
           /\ allImageResults # <<>>
           /\ allImageResults = slice(flat(searchResults), MaxCandidates)
    /\ pc # "details" =>
           /\ StrictlyIncreasing(Ids(imageDetails))
           /\ \A k \in 1..Len(detailResults) :
                  detailResults[k].found <=>
                      \E j \in 1..Len(imageDetails) :
                          /\ imageDetails[j].id = k
                          /\ imageDetails[j].url = detailResults[k].url

\* The first search and the first detail lookup failed, the second of each
\* succeeded, and the run went on to show an answer about the second
\* candidate's image.
C13_Witness ==
    /\ <<"search", 1>> \in failed
    /\ <<"detail", 1>> \in failed
    /\ Len(allImageResults) = 2
    /\ allImageResults[1].term = 2
    /\ Ids(imageDetails) = <<2>>
    /\ Ids(processedImages) = <<2>>
    /\ response.kind = "answer"

BeforeSearch == {"idle", "terms_relay", "terms_direct"}

\* What holds of the two stages in every state: the barrier, the place of
\* every stored answer, and the order of the flattened candidates.
FanOutSettled ==
    /\ pc \notin BeforeSearch \cup {"search"} =>
           searchSettled = 1..Len(searchTerms)
    /\ calls["detail"] > 0 => searchSettled = 1..Len(searchTerms)
    /\ pc \notin BeforeSearch \cup {"search", "details"} =>
           detailSettled = 1..Len(allImageResults)
    /\ (probed # {} \/ imageDetails # <<>>) =>
           detailSettled = 1..Len(allImageResults)
    /\ \A t \in 1..Len(searchResults) :
           /\ t \notin searchSettled => searchResults[t] = <<>>
           /\ \A r \in 1..Len(searchResults[t]) :
                  searchResults[t][r] = [term |-> t, rank |-> r]
    /\ \A k \in 1..Len(detailResults) :
           k \notin detailSettled => detailResults[k] = NoDetail
    /\ \A j, k \in 1..Len(allImageResults) :
           j < k => \/ allImageResults[j].term < allImageResults[k].term
                    \/ /\ allImageResults[j].term = allImageResults[k].term
                       /\ allImageResults[j].rank < allImageResults[k].rank

\* C14: no detail request is sent before every search request has settled
\* and admission does not start before every detail lookup has settled,
\* in whatever order the answers arrive; an answer is stored at the place
\* of its request and an answer that arrives, failed or not, leaves the
\* stored results of the other requests as they were.
C14_FanOutBarrier ==
    /\ []FanOutSettled
    /\ [][(pc = "search" /\ pc' = "search") =>
              \A t \in searchSettled :
                  t \in searchSettled' /\ searchResults'[t] = searchResults[t]]_vars
    /\ [][(pc = "details" /\ pc' = "details") =>
              \A k \in detailSettled :
                  k \in detailSettled' /\ detailResults'[k] = detailResults[k]]_vars

\* The second detail lookup has settled first, and failed, while the first
\* is still outstanding, in a run whose second search settled with two
\* candidates after the first search had failed.
C14_Witness ==
    /\ pc = "details"
    /\ detailSettled = {2}
    /\ <<"detail", 2>> \in failed
    /\ <<"search", 1>> \in failed
    /\ Len(allImageResults) = 2

(***************************************************************************)
(* Properties of the end of a run                                          *)
(***************************************************************************)
AnalyzeCalls == calls["analyze_relay"] + calls["analyze_direct"]

\* C15: the vision model is invoked only when at least one image survived
\* search and admission; a run in which none survived has ended with the
\* no-images error.
C15_EmptyResultAborts ==
    /\ AnalyzeCalls > 0 => processedImages # <<>>
    /\ (pc = "returned" /\ processedImages = <<>>) => FALSE
    /\ response = Shown("error", "noImages") => AnalyzeCalls = 0

\* The part of C15 the code keeps: when no search gave a candidate the run
\* ends with the no-images error, without a detail lookup and without a
\* call of the vision model.
C15_NoCandidateAborts ==
    /\ response = Shown("error", "noImages") =>
           /\ pc = "idle"
           /\ calls["detail"] = 0
           /\ AnalyzeCalls = 0
    /\ (pc \notin BeforeSearch \cup {"search"}) => allImageResults # <<>>

\* Every detail lookup of the run came back without a detail, admission
\* got the empty sequence, and the vision model has been asked all the same.
C15_Witness ==
    /\ pc = "analyze_relay"
    /\ allImageResults # <<>>
    /\ imageDetails = <<>>
    /\ processedImages = <<>>
    /\ calls["analyze_relay"] = 1

ErrorMessages ==
    {"keyRequired", "keyRequiredNoProxy", "noImages"} \cup RelayFailures

\* C16: the response area holds one thing at a time: nothing while a run
\* is in flight, and after a run has ended either one error message or the
\* answer; the answer only after a model call of the analysis stage, an
\* error message only one of the run's terminal errors.
C16_ErrorOrAnswer ==
    /\ response.kind \in {"empty", "error", "answer"}
    /\ pc # "idle" => response = NothingShown
    /\ (pc = "idle" /\ calls # NoCalls) => response.kind \in {"error", "answer"}
    /\ response.kind = "answer" =>
           /\ pc = "idle"
           /\ response.what \in {"relay", "direct"}
           /\ AnalyzeCalls >= 1
           /\ response.what = "relay" => proxyLog = "ok"
    /\ response.kind = "error" =>
           /\ pc = "idle"
           /\ response.what \in ErrorMessages
           /\ response.what = "noImages" => AnalyzeCalls = 0

\* A run has ended with the error of the direct analysis request, after
\* images had been admitted and previewed.
C16_Witness ==
    /\ pc = "idle"
    /\ response = Shown("error", "status")
    /\ calls["analyze_direct"] = 1
    /\ processedImages # <<>>

(***************************************************************************)
(* Properties of the admission pass as a whole                             *)
(***************************************************************************)
\* C17: a failed size probe, download or rasterization never ends the
\* admission pass: until the pass returns a next step is always possible,
\* it returns only after every image of the input was taken, the image
\* whose step failed is not in the ProcessedImage sequence, and every
\* image taken that is no GIF had its probe sent.
C17_SkipAndContinue ==
    /\ pc \in {"loop", "probe", "fetch", "returned"}
    /\ pc # "returned" => ENABLED NextAdmit
    /\ pc = "returned" => i = Len(imageDetails)
    /\ \A k \in 1..Len(processedImages) :
           processedImages[k].probe.ok /\ processedImages[k].base64.ok
    /\ last.kind \in {"oversized", "error"} =>
           \A k \in 1..Len(processedImages) : processedImages[k].id # last.id
    /\ (pc \in {"loop", "returned"} /\ i >= 1) => last.id = imageDetails[i].id
    /\ \A k \in 1..i :
           ~isGif(imageDetails[k].url) => imageDetails[k].url \in probed

\* The probe of the first image failed or refused it, the rasterization of
\* the second failed, and the third image was still evaluated and admitted.
C17_Witness ==
    /\ pc = "returned"
    /\ Len(imageDetails) = 3
    /\ imageDetails[1].url = UrlJpg
    /\ imageDetails[2].url = UrlSvg
    /\ imageDetails[3].url = UrlSvg
    /\ UrlJpg \in probed
    /\ UrlJpg \notin fetched
    /\ UrlSvg \in fetched
    /\ overBudget = {}
    /\ Ids(processedImages) = <<3>>

(***************************************************************************)
(* Properties of formatResponse                                            *)
(***************************************************************************)
\* The tokens of the input set that occur in a text.
TokensIn(text) == {token(f) : f \in {g \in Filenames : includes(text, token(g))}}

PlaceholderKeys(entries) == {entries[k].placeholder : k \in 1..Len(entries)}

\* C18: after extraction the mapping has one entry for every distinct token
\* text of the answer and no other, however often the token occurs, each
\* entry holding the text between the token's brackets; and when the
\* answer holds no token the text handed to the renderer is the answer.
C18_OneEntryPerToken ==
    pc # "format" =>
        /\ \A j, k \in 1..Len(imagePlaceholders) :
               imagePlaceholders[j].placeholder = imagePlaceholders[k].placeholder
                   => j = k
        /\ \A k \in 1..Len(imagePlaceholders) :
               imagePlaceholders[k].placeholder = token(imagePlaceholders[k].filename)
        /\ PlaceholderKeys(imagePlaceholders) = TokensIn(geminiResponse)
        /\ Len(imagePlaceholders) = Cardinality(TokensIn(geminiResponse))
        /\ (pc = "rendered" /\ TokensIn(geminiResponse) = {}) =>
               formattedResponse = geminiResponse

\* An answer that holds the same token twice has been worked through and
\* the mapping has the one entry.
C18_Witness ==
    /\ pc = "rendered"
    /\ geminiResponse = token(NameDogJpg) \o token(NameDogJpg)
    /\ Len(imagePlaceholders) = 1
    /\ imagePlaceholders[1].filename = NameDogJpg

\* The four criteria, for the image at place j and a token's filename.
Exact(j, filename) ==
    toLowerCase(processedImages[j].title) = trim(toLowerCase(filename))

TitleContains(j, filename) ==
    includes(toLowerCase(processedImages[j].title), trim(toLowerCase(filename)))

FilenameContains(j, filename) ==
    includes(trim(toLowerCase(filename)), toLowerCase(processedImages[j].title))

StrippedEqual(j, filename) ==
    stripExtension(toLowerCase(processedImages[j].title))
        = stripExtension(trim(toLowerCase(filename)))

Satisfies(j, filename) ==
    \/ Exact(j, filename)
    \/ TitleContains(j, filename)
    \/ FilenameContains(j, filename)
    \/ StrippedEqual(j, filename)

TitlesOf(images) == [k \in 1..Len(images) |-> images[k].title]

\* C19: every token handled is resolved to the first image, in sequence
\* order, whose title satisfies one of the criteria, and to none when no
\* title does; with the titles dog.png, cat.png the filename Dog.PNG finds
\* dog.png, and golden_retriever finds golden_retriever_dog.png.
C19_FirstMatchingImage ==
    \A k \in 1..Len(resolved) :
        LET filename == imagePlaceholders[k].filename
            hits == {j \in 1..Len(processedImages) : Satisfies(j, filename)}
        IN  /\ hits = {} <=> resolved[k] = 0
            /\ hits # {} =>
                   /\ resolved[k] \in hits
                   /\ \A j \in hits : resolved[k] <= j
                   /\ processedImages[resolved[k]].id = resolved[k]
            /\ (filename = NameDogUpper
                    /\ TitlesOf(processedImages) = <<TitleDog, TitleCat>>)
                   => resolved[k] = 1
            /\ (filename = NameGolden
                    /\ TitlesOf(processedImages) = <<TitleCat, TitleGolden>>)
                   => resolved[k] = 2

\* With the titles dog.png, golden_retriever_dog.png the tokens Dog.PNG and
\* golden_retriever have been resolved to the first and the second image.
C19_Witness ==
    /\ pc = "rendered"
    /\ TitlesOf(processedImages) = <<TitleDog, TitleGolden>>
    /\ geminiResponse = token(NameDogUpper) \o token(NameGolden)
    /\ resolved = <<1, 2>>
    /\ formattedResponse = <<"figure1", "figure2">>

\* C20 as stated: whenever some title equals the filename exactly, the
\* token is resolved to an image whose title equals it exactly, wherever
\* that image stands in the sequence.
C20_ExactBeatsContainment ==
    \A k \in 1..Len(resolved) :
        LET filename == imagePlaceholders[k].filename IN
        (\E j \in 1..Len(processedImages) : Exact(j, filename))
            => /\ resolved[k] # 0
               /\ Exact(resolved[k], filename)

\* C20, amended: the criteria are alternatives of one test made image by
\* image, so the place in the sequence decides: a token whose filename
\* some title equals exactly is resolved to an exactly-equal image if and
\* only if no image before the first exactly-equal one satisfies any
\* criterion; otherwise it is resolved to that earlier image.
C20_SequenceOrderDecides ==
    \A k \in 1..Len(resolved) :
        LET filename == imagePlaceholders[k].filename
            exact == {j \in 1..Len(processedImages) : Exact(j, filename)}
        IN  exact # {} =>
                /\ resolved[k] # 0
                /\ resolved[k] <= Min(exact)
                /\ Exact(resolved[k], filename) <=>
                       \A j \in 1..(Min(exact) - 1) : ~Satisfies(j, filename)
                /\ ~Exact(resolved[k], filename) =>
                       /\ resolved[k] < Min(exact)
                       /\ Satisfies(resolved[k], filename)

\* The title golden_retriever_dog.png stands before the title dog.png and
\* the token Dog.PNG has been resolved to the former, which only contains
\* the filename.
C20_Witness ==
    /\ pc = "rendered"
    /\ TitlesOf(processedImages) = <<TitleGolden, TitleDog>>
    /\ geminiResponse = token(NameDogUpper)
    /\ resolved = <<1>>

\* How often a text holds a pattern.
Occurrences(text, pattern) ==
    Cardinality({p \in 1..Len(text) : hasAt(text, p, pattern)})

Matched(filename) ==
    \E j \in 1..Len(processedImages) : Satisfies(j, filename)

MediaBlocks(text) ==
    {p \in 1..Len(text) :
        \E j \in 1..Len(processedImages) : <<text[p]>> = imgTag(processedImages[j])}

ResolvedEntries == {k \in 1..Len(resolved) : resolved[k] # 0}

\* C22: the text for the renderer holds one media block for every token
\* text resolved so far; of a resolved token text that stands k times in
\* the answer k - 1 occurrences are left, each of them behind the media
\* block of its image; an answer with one token text, resolved, gives
\* exactly one media block.
C22_FirstOccurrenceOnly ==
    pc # "format" =>
        /\ Cardinality(MediaBlocks(formattedResponse)) = Cardinality(ResolvedEntries)
        /\ \A k \in ResolvedEntries :
               LET placeholder == imagePlaceholders[k].placeholder
                   block == imgTag(processedImages[resolved[k]])
               IN  /\ Occurrences(formattedResponse, placeholder)
                          = Occurrences(geminiResponse, placeholder) - 1
                   /\ \A q \in 1..Len(formattedResponse) :
                          hasAt(formattedResponse, q, placeholder) =>
                              \E r \in 1..(q - 1) : hasAt(formattedResponse, r, block)
        /\ (pc = "rendered" /\ Len(imagePlaceholders) = 1 /\ resolved # <<0>>) =>
               Cardinality(MediaBlocks(formattedResponse)) = 1

\* The answer held the token dog.jpg twice: the first has become the media
\* block of dog.png, the second is left as it was.
C22_Witness ==
    /\ pc = "rendered"
    /\ TitlesOf(processedImages) = <<TitleDog>>
    /\ geminiResponse = token(NameDogJpg) \o token(NameDogJpg)
    /\ formattedResponse = <<"figure1">> \o token(NameDogJpg)

(***************************************************************************)
(* Properties of the candidate list                                        *)
(***************************************************************************)
\* The number of candidates of the terms before term t.
RECURSIVE Offset(_)
Offset(t) == IF t = 1 THEN 0 ELSE Offset(t - 1) + Len(searchResults[t - 1])

TotalCandidates == Offset(Len(searchResults) + 1)

\* C23: the candidate list is the concatenation of the terms' results in
\* term order, each term's in the order returned, cut to its first 15
\* entries: a candidate is kept exactly when fewer than 15 stand before
\* it, and one detail lookup is sent for each candidate kept, at most 15.
C23_FirstFifteenKept ==
    pc = "details" =>
        /\ Len(allImageResults) =
               (IF TotalCandidates > 15 THEN 15 ELSE TotalCandidates)
        /\ \A t \in 1..Len(searchResults) : \A r \in 1..Len(searchResults[t]) :
               IF Offset(t) + r <= 15
               THEN allImageResults[Offset(t) + r] = searchResults[t][r]
               ELSE \A k \in 1..Len(allImageResults) :
                        allImageResults[k] # searchResults[t][r]
        /\ calls["detail"] = Len(allImageResults)
        /\ calls["detail"] <= 15
        /\ Len(detailResults) = Len(allImageResults)

\* Six terms with three candidates each: the fifteen of the first five
\* terms are kept and the sixth term's are dropped.
C23_Witness ==
    /\ pc = "details"
    /\ Len(searchResults) = 6
    /\ TotalCandidates = 18
    /\ Len(allImageResults) = 15
    /\ allImageResults[15] = [term |-> 5, rank |-> 3]
    /\ calls["detail"] = 15

(***************************************************************************)
(* Properties of the order of the admission steps                          *)
(***************************************************************************)
\* What holds in every state of a pass: a request is outstanding for the
\* image taken last only, and everything the pass has admitted or logged
\* belongs to an image taken before.
OneImageAtATime ==
    /\ pc \in {"probe", "fetch"} =>
           /\ i >= 1
           /\ \A k \in 1..Len(processedImages) :
                  processedImages[k].id < imageDetails[i].id
           /\ last.id < imageDetails[i].id
    /\ \A k \in 1..Len(processedImages) :
           \E j \in 1..i : imageDetails[j].id = processedImages[k].id
    /\ last.id # 0 => \E j \in 1..i : imageDetails[j].id = last.id
    /\ Cardinality(probed) <= i
    /\ fetched \subseteq probed

\* C24: the pass handles one image at a time: the next image is taken and
\* a probe sent only while no request is outstanding, a download is started
\* only by the probe's answer, and an image is accepted against an
\* accumulator that holds every image accepted before it and grows with
\* every acceptance, so no two images are checked against the same value.
C24_StrictlySequential ==
    /\ []OneImageAtATime
    /\ [][/\ i' # i => (pc = "loop" /\ i' = i + 1)
          /\ probed' # probed => (pc = "loop" /\ i' = i + 1)
          /\ fetched' # fetched => (pc = "probe" /\ i' = i)
          /\ (pc = "fetch" /\ processedImages' # processedImages) =>
                 /\ pc' = "loop"
                 /\ last'.kind = "added"
                 /\ last'.before = SumOfEstimates(processedImages)
                 /\ last'.before = totalPayloadSize
                 /\ last'.size > 0
                 /\ totalPayloadSize' = totalPayloadSize + last'.size]_vars

\* The third image has just been accepted against an accumulator that
\* holds the two images accepted before it.
C24_Witness ==
    /\ pc = "loop"
    /\ Ids(processedImages) = <<1, 2, 3>>
    /\ last.kind = "added"
    /\ last.id = 3
    /\ last.before = estimateBase64Size(processedImages[1].base64)
                         + estimateBase64Size(processedImages[2].base64)
    /\ last.before > 0

(***************************************************************************)
(* Properties of the alt text                                              *)
(***************************************************************************)
EllipsisAppended == endsWith(altText, Ellipsis)

DescriptionKept ==
    IF EllipsisAppended THEN SubSeq(altText, 1, Len(altText) - 3) ELSE altText

\* C25: the alt text holds at most 200 characters of the description, and
\* the ellipsis marker is appended if and only if the trimmed description
\* was longer than 200 characters.
C25_EllipsisIffTruncated ==
    pc = "alt_done" =>
        /\ Len(DescriptionKept) <= 200
        /\ EllipsisAppended <=> Len(trim(description)) > 200

\* What the code does: the marker is appended from 200 characters on, and
\* what stands before it is the first 200 characters of the trimmed
\* description, or all of it when it is shorter.
C25_EllipsisFromLimitOn ==
    pc = "alt_done" =>
        /\ Len(DescriptionKept) <= 200
        /\ EllipsisAppended <=> Len(trim(description)) >= 200
        /\ DescriptionKept = SubSeq(trim(description), 1, Len(DescriptionKept))
        /\ Len(trim(description)) < 200 => altText = trim(description)

\* A description of exactly 200 characters, untruncated, with the marker.
C25_Witness ==
    /\ pc = "alt_done"
    /\ Len(trim(description)) = 200
    /\ altText = trim(description) \o Ellipsis
    /\ Len(altText) = 203

(***************************************************************************)
(* Properties of the accumulator                                           *)
(***************************************************************************)
SkipKinds == {"gif", "oversized", "error", "budget"}

\* What holds in every state of a pass of app.js: the accumulator is the
\* sum of the estimates of the images appended so far, one preview was
\* emitted per appended image, and a pass that has taken no image yet has
\* an accumulator of zero and has appended nothing.
AccumulatorIsSum ==
    /\ (script = "app" \/ pc # "returned") =>
           /\ totalPayloadSize = SumOfEstimates(processedImages)
           /\ previews = Ids(processedImages)
    /\ i = 0 => (totalPayloadSize = 0 /\ processedImages = <<>> /\ previews = <<>>)

\* C26: in every state of an admission pass the accumulator equals the sum
\* of the estimated sizes of the images appended so far; a step that skips
\* an image (GIF, refused or failed probe, over budget) or catches an error
\* of its processing leaves accumulator, sequence and previews unchanged;
\* the accumulator is zero when the pass starts.
C26_AccumulatorIsSumOfAdmitted ==
    /\ []AccumulatorIsSum
    /\ [][/\ (last' # last /\ last'.kind \in SkipKinds) =>
                 UNCHANGED <<totalPayloadSize, processedImages, previews>>
          /\ (pc # "fetch" \/ i' # i) =>
                 UNCHANGED <<totalPayloadSize, previews>>
          /\ totalPayloadSize' # totalPayloadSize =>
                 /\ Len(processedImages') = Len(processedImages) + 1
                 /\ Len(previews') = Len(previews) + 1]_vars

\* A pass over a GIF, an image that was admitted and an image the budget
\* step refused has returned: the accumulator holds the one admitted image.
C26_Witness ==
    /\ pc = "returned"
    /\ script = "app"
    /\ Len(imageDetails) = 3
    /\ isGif(imageDetails[1].url)
    /\ Ids(processedImages) = <<2>>
    /\ last.kind = "budget"
    /\ last.id = 3
    /\ totalPayloadSize = estimateBase64Size(processedImages[1].base64)
    /\ totalPayloadSize > 0

(***************************************************************************)
(* Properties of the relay flag                                            *)
(***************************************************************************)
\* What holds in every state: during a run the flag is the checkbox value
\* the run was started with, and a run with the flag set has asked the
\* relay in every stage it has reached, whatever the relay answered before.
RelayFirstInBothStages ==
    /\ pc # "idle" => usingProxy = runUseProxy
    /\ (usingProxy /\ calls # NoCalls) => calls["terms_relay"] = 1
    /\ (usingProxy /\ pc \in {"analyze_relay", "analyze_direct"}) =>
           calls["analyze_relay"] = 1
    /\ (usingProxy /\ calls["analyze_direct"] = 1) => calls["analyze_relay"] = 1
    /\ (usingProxy /\ calls["terms_direct"] = 1 /\ pc = "analyze_relay") =>
           proxyLog = "attempting"

\* C27: the relay flag changes only in setUseProxy, called by an accepted
\* click while no run is in flight; a relay failure and the fallback to the
\* direct endpoint leave it as it is, so a run with the relay enabled asks
\* the relay first for the terms and for the analysis, also after the relay
\* failed for the terms; and flipping the checkbox changes neither the flag
\* nor anything else of the run in flight.
C27_FlagSetOnlyByClick ==
    /\ []RelayFirstInBothStages
    /\ [][/\ usingProxy' # usingProxy =>
                 /\ pc = "idle"
                 /\ pc' # "idle"
                 /\ alert' = "none"
                 /\ usingProxy' = checkbox
                 /\ runUseProxy' = checkbox
          /\ (proxyLog' \in RelayFailures /\ proxyLog = "attempting") =>
                 UNCHANGED <<usingProxy, runUseProxy, checkbox>>
          /\ checkbox' # checkbox =>
                 UNCHANGED <<usingProxy, runUseProxy, pc, calls, proxyLog,
                             apiKey, button>>]_vars

\* The relay failed for the terms, the direct endpoint served them, the
\* user has unticked the checkbox meanwhile, and the analysis request of
\* the same run has gone to the relay.
C27_Witness ==
    /\ pc = "analyze_relay"
    /\ usingProxy
    /\ ~checkbox
    /\ calls["terms_relay"] = 1
    /\ calls["terms_direct"] = 1
    /\ calls["analyze_relay"] = 1
    /\ calls["analyze_direct"] = 0

(***************************************************************************)
(* Properties of the submit button                                         *)
(***************************************************************************)
TermStages == {"terms_relay", "terms_direct"}
ImageStages == {"search", "details", "loop", "probe", "fetch", "returned"}
AnalyzeStages == {"analyze_relay", "analyze_direct"}

\* The changes of the button a run may make: forward by one stage, or back
\* to the initial state from any stage.
ButtonSteps ==
    {<<"initial", "processing">>, <<"processing", "finding">>,
     <<"finding", "analyzing">>, <<"processing", "initial">>,
     <<"finding", "initial">>, <<"analyzing", "initial">>}

\* What holds in every state: the button shows the stage of the run in
\* flight and is disabled exactly while one is, and outside a run the
\* button is in its initial state and the loading indicator hidden.
ButtonShowsStage ==
    /\ pc \in TermStages => button = "processing"
    /\ pc \in ImageStages => button = "finding"
    /\ pc \in AnalyzeStages => button = "analyzing"
    /\ pc # "idle" <=> button \in {"processing", "finding", "analyzing"}
    /\ pc # "idle" <=> loading
    /\ pc = "idle" => (button = "initial" /\ ~loading)

\* C28: the button is disabled from the start of a run to its end and goes
\* through processing, finding, analyzing in this order without going back;
\* while a run is in flight no click is handled, so no second run starts;
\* and a run that ends, with the answer or with an error of any stage,
\* leaves the button enabled in its initial state and the indicator hidden.
C28_ButtonDisabledDuringRun ==
    /\ []ButtonShowsStage
    /\ [][/\ button' # button => <<button, button'>> \in ButtonSteps
          /\ pc # "idle" =>
                 /\ alert' = alert
                 /\ runUseProxy' = runUseProxy
                 /\ apiKey' = apiKey
                 /\ pc' \notin TermStages \/ pc \in TermStages
                 /\ \A e \in DOMAIN calls : calls'[e] >= calls[e]
          /\ (pc # "idle" /\ pc' = "idle") =>
                 /\ button' = "initial"
                 /\ ~loading'
                 /\ response'.kind \in {"error", "answer"}]_vars

\* A run started with the relay off has ended with a transport error of
\* its analysis request: the button is enabled again and the indicator
\* hidden.
C28_Witness ==
    /\ pc = "idle"
    /\ button = "initial"
    /\ ~loading
    /\ response = Shown("error", "transport")
    /\ calls["analyze_direct"] = 1
    /\ calls["terms_relay"] = 0

C29_OlderScriptCuts ==
    /\ script = "old"
    /\ pc = "returned"
    /\ Len(previews) > 8
    /\ Len(processedImages) = 8

(***************************************************************************)
(* Properties of tokens that enclose no filename                           *)
(***************************************************************************)
Blank(filename) == trim(filename) = <<>>

\* C30: a token whose enclosed text is empty or white space only is
\* resolved to the first image of the ProcessedImage sequence whenever the
\* sequence has an image, whatever its title, and its first occurrence is
\* replaced by that image's media block; it stays unresolved, and in the
\* text, exactly when no image was admitted.
C30_BlankTokenTakesFirstImage ==
    \A k \in 1..Len(resolved) :
        LET entry == imagePlaceholders[k] IN
        Blank(entry.filename) =>
            /\ resolved[k] = 0 <=> processedImages = <<>>
            /\ processedImages # <<>> =>
                   /\ resolved[k] = processedImages[1].id
                   /\ includes(formattedResponse, imgTag(processedImages[1]))
                   /\ \A j \in 1..Len(processedImages) :
                          includes(toLowerCase(processedImages[j].title),
                                   trim(toLowerCase(entry.filename)))
            /\ processedImages = <<>> =>
                   includes(formattedResponse, entry.placeholder)

\* With the titles cat.png, dog.png the answer of the token with nothing
\* between its brackets and the token of one blank has been worked through:
\* both stand for the first image.
C30_Witness ==
    /\ pc = "rendered"
    /\ TitlesOf(processedImages) = <<TitleCat, TitleDog>>
    /\ geminiResponse = token(NameEmpty) \o token(NameBlank)
    /\ resolved = <<1, 1>>
    /\ formattedResponse = <<"figure1", "figure1">>

\* No image was admitted and the token with nothing between its brackets
\* stands in the text as it was.
C30_DanglingWithoutImages ==
    /\ pc = "rendered"
    /\ processedImages = <<>>
    /\ geminiResponse = token(NameEmpty)
    /\ resolved = <<0>>
    /\ formattedResponse = token(NameEmpty)

====
